---- MODULE Spec2Model ----
(***************************************************************************)
(* Model of the arithmetic expression evaluator of src/src/main.rs.        *)
(*                                                                         *)
(* A character is a one-character string, an expression a sequence of      *)
(* characters.  compute() is a loop over a character iterator; each        *)
(* iteration is one call of process_char().  A recursive call of compute() *)
(* for a parenthesized group is a new frame on `stack`.                    *)
(*                                                                         *)
(* Number (i128) is a TLA+ integer.  The inputs are bounded so that no     *)
(* i128 operation leaves the i128 range; the u32 arithmetic of             *)
(* combine_digit is modelled bit-exactly with 16-bit limbs.                *)
(***************************************************************************)
EXTENDS Integers, Sequences, FiniteSets, TLC

VARIABLES
    expression,       \* the String handed to the top-level compute()
    overflow_checks,  \* build profile: TRUE = overflow panics, FALSE = wraps
    stack,            \* frames of the active compute() calls, innermost last
    outcome           \* what the top-level compute() has produced so far

vars == <<expression, overflow_checks, stack, outcome>>

(***************************************************************************)
(* Token encoding (main.rs:12-20)                                          *)
(***************************************************************************)
ADDITION == "a"
SUBTRACTION == "b"
MULTIPLICATION == "c"
DIVISION == "d"
OPEN_PAREN == "e"
CLOSE_PAREN == "f"
END_STATEMENT == ";"
RADIX == 10

\* the characters '0'..'9' in the order of their values
DigitChars == <<"0", "1", "2", "3", "4", "5", "6", "7", "8", "9">>

\* char::to_digit(RADIX): the digit value, or -1 for None
to_digit(ch) ==
    IF \E d \in 1..RADIX : DigitChars[d] = ch
    THEN (CHOOSE d \in 1..RADIX : DigitChars[d] = ch) - 1
    ELSE -1

\* char::is_whitespace, on the whitespace characters the model's inputs use
is_whitespace(ch) == ch \in {" ", "\t", "\n"}

\* Operand::parse: the first branch that matches decides
Operand_parse(ch) ==
    IF to_digit(ch) # -1 THEN [kind |-> "Digit", digit |-> to_digit(ch), op |-> ""]
    ELSE IF ch = ADDITION THEN [kind |-> "Operator", digit |-> 0, op |-> ADDITION]
    ELSE IF ch = SUBTRACTION THEN [kind |-> "Operator", digit |-> 0, op |-> SUBTRACTION]
    ELSE IF ch = MULTIPLICATION THEN [kind |-> "Operator", digit |-> 0, op |-> MULTIPLICATION]
    ELSE IF ch = DIVISION THEN [kind |-> "Operator", digit |-> 0, op |-> DIVISION]
    ELSE IF ch = OPEN_PAREN THEN [kind |-> "Operator", digit |-> 0, op |-> OPEN_PAREN]
    ELSE IF ch = CLOSE_PAREN THEN [kind |-> "Operator", digit |-> 0, op |-> CLOSE_PAREN]
    ELSE IF is_whitespace(ch) THEN [kind |-> "Whitespace", digit |-> 0, op |-> ""]
    ELSE IF ch = END_STATEMENT THEN [kind |-> "Operator", digit |-> 0, op |-> END_STATEMENT]
    ELSE [kind |-> "None", digit |-> 0, op |-> ""]

(***************************************************************************)
(* u32 arithmetic of combine_digit, on two 16-bit limbs                    *)
(***************************************************************************)
Limb == 2^16

\* a u32 value hi * 2^16 + lo
U32(hi, lo) == [hi |-> hi, lo |-> lo]

\* x * m in u32 for a multiplier m < 2^14: the wrapped product and whether
\* the exact product left the u32 range
u32_mul(x, m) ==
    LET lo == x.lo * m
        hi == x.hi * m + (lo \div Limb)
    IN [val |-> U32(hi % Limb, lo % Limb), overflow |-> hi >= Limb]

\* 10_u32.pow(exp): exponentiation by squaring multiplies powers of ten that
\* never exceed the result, so it overflows exactly when 10^exp does
RECURSIVE u32_pow10(_)
u32_pow10(exp) ==
    IF exp = 0 THEN [val |-> U32(0, 1), overflow |-> FALSE]
    ELSE LET p == u32_pow10(exp - 1)
             m == u32_mul(p.val, RADIX)
         IN [val |-> m.val, overflow |-> p.overflow \/ m.overflow]

\* the largest Number the model checker's integers hold (2^31 - 1)
ModelMax == (Limb \div 2 - 1) * Limb + (Limb - 1)

\* digit * 10_u32.pow(digit_index), main.rs:64
digit_value(digit, digit_index) ==
    LET p == u32_pow10(digit_index)
        m == u32_mul(p.val, digit)
    IN [val |-> m.val, overflow |-> p.overflow \/ m.overflow]

\* the limb-wise sum of the digit values of the last `count` digits
RECURSIVE sum_digit_values(_, _)
sum_digit_values(digits, count) ==
    IF count = 0 THEN U32(0, 0)
    ELSE LET rest == sum_digit_values(digits, count - 1)
             dv == digit_value(digits[Len(digits) - (count - 1)], count - 1)
         IN U32(rest.hi + dv.val.hi, rest.lo + dv.val.lo)

\* combine_digit: the digits are visited last to first, digit_index counting
\* from 0; each term is computed in u32 and added to an i128
combine_digit(digits) ==
    LET n == Len(digits)
        total == sum_digit_values(digits, n)
        high == total.hi + (total.lo \div Limb)
    IN IF overflow_checks
          /\ \E i \in 0..(n - 1) : digit_value(digits[n - i], i).overflow
       THEN [status |-> "ArithmeticOverflow", value |-> 0]
       ELSE IF high >= Limb \div 2
       THEN [status |-> "BeyondModel", value |-> 0]
       ELSE [status |-> "ok", value |-> high * Limb + (total.lo % Limb)]

(***************************************************************************)
(* Number arithmetic (main.rs:22, 133-136)                                 *)
(***************************************************************************)
Abs(n) == IF n < 0 THEN -n ELSE n

\* faulty variant: the quotient is rounded down
i128_div_floor(n, m) == n \div m

\* i128 `/` truncates toward zero
i128_div(n, m) == IF (n < 0) = (m < 0) THEN Abs(n) \div Abs(m) ELSE -(Abs(n) \div Abs(m))

\* Number::to_string: a minus sign for a negative value, then the decimal
\* digits without leading zeros
RECURSIVE decimal_chars(_)
decimal_chars(n) ==
    IF n < RADIX THEN <<DigitChars[n + 1]>>
    ELSE Append(decimal_chars(n \div RADIX), DigitChars[(n % RADIX) + 1])

to_string(n) == IF n < 0 THEN <<"-">> \o decimal_chars(-n) ELSE decimal_chars(n)

(***************************************************************************)
(* State of one compute() call (main.rs:70-74, 145-151)                    *)
(***************************************************************************)
\* faulty variant: the accumulator starts at the multiplicative unit
new_frame_unit(raw_expression) ==
    [raw_expression |-> raw_expression,
     next |-> 0,
     result |-> 1,
     digits_buf |-> <<>>,
     last_operator |-> ADDITION]

\* the State compute() starts with, and its iterator: `next` characters of
\* raw_expression have been taken from expression_chars
new_frame(raw_expression) ==
    [raw_expression |-> raw_expression,
     next |-> 0,
     result |-> 0,
     digits_buf |-> <<>>,
     last_operator |-> ADDITION]

Top(cfg) == cfg.stack[Len(cfg.stack)]

SetTop(cfg, frame) == [cfg EXCEPT !.stack[Len(cfg.stack)] = frame]

Running(cfg) == cfg.outcome.status = "running"

\* faulty variant: a failure inside a group is swallowed, the group counts
\* as 0 and the caller goes on
Panic_recover(cfg, status, ch) ==
    IF Len(cfg.stack) > 1
    THEN [cfg EXCEPT !.stack =
             [SubSeq(@, 1, Len(@) - 1) EXCEPT ![Len(cfg.stack) - 1].digits_buf = <<0>>]]
    ELSE [cfg EXCEPT !.outcome = [status |-> status, value |-> 0, ch |-> ch]]

\* a panic ends the whole evaluation; ch is the character the message names
Panic(cfg, status, ch) ==
    [cfg EXCEPT !.outcome = [status |-> status, value |-> 0, ch |-> ch]]

(***************************************************************************)
(* process_char (main.rs:76-142)                                           *)
(***************************************************************************)
\* faulty variant: a zero divisor leaves the result as it is
apply_operator_skip_zero(last_operator, result, last_digit) ==
    IF last_operator = ADDITION THEN [status |-> "ok", value |-> result + last_digit]
    ELSE IF last_operator = SUBTRACTION THEN [status |-> "ok", value |-> result - last_digit]
    ELSE IF last_operator = MULTIPLICATION THEN [status |-> "ok", value |-> result * last_digit]
    ELSE IF last_operator = DIVISION THEN
        IF last_digit = 0
        THEN [status |-> "ok", value |-> result]
        ELSE [status |-> "ok", value |-> i128_div(result, last_digit)]
    ELSE IF last_operator \in {OPEN_PAREN, CLOSE_PAREN}
    THEN [status |-> "Unreachable", value |-> 0]
    ELSE [status |-> "UnknownOperator", value |-> 0]

\* the arithmetic of main.rs:132-139 on the pending operator; a value
\* outside the model checker's integers ends the run as "BeyondModel"
apply_operator(last_operator, result, last_digit) ==
    IF last_operator = ADDITION THEN
        IF result > ModelMax - last_digit
        THEN [status |-> "BeyondModel", value |-> 0]
        ELSE [status |-> "ok", value |-> result + last_digit]
    ELSE IF last_operator = SUBTRACTION THEN
        IF result < last_digit - ModelMax
        THEN [status |-> "BeyondModel", value |-> 0]
        ELSE [status |-> "ok", value |-> result - last_digit]
    ELSE IF last_operator = MULTIPLICATION THEN
        IF last_digit # 0 /\ Abs(result) > ModelMax \div last_digit
        THEN [status |-> "BeyondModel", value |-> 0]
        ELSE [status |-> "ok", value |-> result * last_digit]
    ELSE IF last_operator = DIVISION THEN
        IF last_digit = 0
        THEN [status |-> "DivisionByZero", value |-> 0]
        ELSE [status |-> "ok", value |-> i128_div(result, last_digit)]
    ELSE IF last_operator \in {OPEN_PAREN, CLOSE_PAREN}
    THEN [status |-> "Unreachable", value |-> 0]
    ELSE [status |-> "UnknownOperator", value |-> 0]

\* the body of the operator arm, main.rs:126-139, for the value read from
\* state.last_operator at main.rs:127
operator_arm(cfg, operator, last_operator) ==
    LET state == Top(cfg)
        last_digit == combine_digit(state.digits_buf)
        applied == apply_operator(last_operator, state.result, last_digit.value)
    IN IF last_digit.status # "ok" THEN Panic(cfg, last_digit.status, "")
       ELSE IF applied.status # "ok"
       THEN Panic(SetTop(cfg, [state EXCEPT !.digits_buf = <<>>,
                                            !.last_operator = operator]),
                  applied.status,
                  IF applied.status = "UnknownOperator" THEN last_operator ELSE "")
       ELSE SetTop(cfg, [state EXCEPT !.digits_buf = <<>>,
                                      !.last_operator = operator,
                                      !.result = applied.value])

\* faulty variant: last_operator is read after the new operator has been stored
on_operator_overwritten(cfg, operator) == operator_arm(cfg, operator, operator)

\* faulty variant: an operator without a buffered operand is rejected
on_operator_strict(cfg, operator) ==
    IF Top(cfg).digits_buf = <<>>
    THEN Panic(cfg, "MalformedExpression", operator)
    ELSE operator_arm(cfg, operator, Top(cfg).last_operator)

\* Operand::Operator(operator), main.rs:125-140: the pending operator is
\* read before the new one replaces it
on_operator(cfg, operator) == operator_arm(cfg, operator, Top(cfg).last_operator)

\* Operand::Digit(digit), main.rs:90-92
on_digit(cfg, digit) ==
    SetTop(cfg, [Top(cfg) EXCEPT !.digits_buf = Append(@, digit)])

\* faulty variant: whitespace ends the number being read
on_whitespace_separator(cfg) ==
    SetTop(cfg, [Top(cfg) EXCEPT !.digits_buf = <<>>])

\* Operand::Whitespace, main.rs:86
on_whitespace(cfg) == cfg

\* faulty variant: the close-parenthesis drops the digits collected so far
on_close_paren_reset(cfg) == SetTop(cfg, [Top(cfg) EXCEPT !.digits_buf = <<>>])

\* Operand::Operator(CLOSE_PAREN), main.rs:120
on_close_paren(cfg) == cfg

\* faulty variant: the scan stops quietly when the iterator is exhausted
RECURSIVE scan_parenthesis_lenient(_, _, _)
scan_parenthesis_lenient(chars, next, parenthesis_depth) ==
    IF parenthesis_depth = 0 \/ next >= Len(chars) THEN [closed |-> TRUE, next |-> next]
    ELSE LET next_char == chars[next + 1]
         IN scan_parenthesis_lenient(chars, next + 1,
                IF next_char = OPEN_PAREN THEN parenthesis_depth + 1
                ELSE IF next_char = CLOSE_PAREN THEN parenthesis_depth - 1
                ELSE parenthesis_depth)

\* the while loop of main.rs:102-110 from iterator position `next` with
\* `parenthesis_depth` open groups: where the iterator stands when the loop
\* ends, and whether it ended by depth 0 (closed) or by an exhausted iterator
RECURSIVE scan_parenthesis(_, _, _)
scan_parenthesis(chars, next, parenthesis_depth) ==
    IF parenthesis_depth = 0 THEN [closed |-> TRUE, next |-> next]
    ELSE IF next >= Len(chars) THEN [closed |-> FALSE, next |-> next]
    ELSE LET next_char == chars[next + 1]
         IN scan_parenthesis(chars, next + 1,
                IF next_char = OPEN_PAREN THEN parenthesis_depth + 1
                ELSE IF next_char = CLOSE_PAREN THEN parenthesis_depth - 1
                ELSE parenthesis_depth)

\* faulty variant: the assertion on the digit buffer is missing
on_open_paren_unchecked(cfg) ==
    LET state == Top(cfg)
        scan == scan_parenthesis(state.raw_expression, state.next, 1)
        parenthesis_expr == SubSeq(state.raw_expression, state.next + 1, scan.next)
        scanned == SetTop(cfg, [state EXCEPT !.next = scan.next])
    IN IF ~scan.closed THEN Panic(scanned, "UnclosedParenthesis", "")
       ELSE [scanned EXCEPT !.stack = Append(@, new_frame(parenthesis_expr))]

\* faulty variant: the scan runs on a copy of the iterator, so the caller's
\* iterator still stands right after the open-parenthesis
on_open_paren_copy(cfg) ==
    LET state == Top(cfg)
        scan == scan_parenthesis(state.raw_expression, state.next, 1)
        parenthesis_expr == SubSeq(state.raw_expression, state.next + 1, scan.next)
    IN IF state.digits_buf # <<>> THEN Panic(cfg, "MalformedExpression", OPEN_PAREN)
       ELSE IF ~scan.closed THEN Panic(cfg, "UnclosedParenthesis", "")
       ELSE [cfg EXCEPT !.stack = Append(@, new_frame(parenthesis_expr))]

\* Operand::Operator(OPEN_PAREN), main.rs:94-112: the assertion, the scan
\* (parenthesis_expr holds every scanned character, the closing one
\* included) and the call of compute(parenthesis_expr)
on_open_paren(cfg) ==
    LET state == Top(cfg)
        scan == scan_parenthesis(state.raw_expression, state.next, 1)
        parenthesis_expr == SubSeq(state.raw_expression, state.next + 1, scan.next)
        scanned == SetTop(cfg, [state EXCEPT !.next = scan.next])
    IN IF state.digits_buf # <<>> THEN Panic(cfg, "MalformedExpression", OPEN_PAREN)
       ELSE IF ~scan.closed THEN Panic(scanned, "UnclosedParenthesis", "")
       ELSE [scanned EXCEPT !.stack = Append(@, new_frame(parenthesis_expr))]

\* faulty variant: the arm for the close-parenthesis is missing, so it is
\* taken by the arm of the arithmetic operators
process_char_no_close_arm(cfg, input_char) ==
    LET operand == Operand_parse(input_char)
    IN IF operand.kind = "None" THEN Panic(cfg, "InvalidCharacter", input_char)
       ELSE IF operand.kind = "Whitespace" THEN on_whitespace(cfg)
       ELSE IF operand.kind = "Digit" THEN on_digit(cfg, operand.digit)
       ELSE IF operand.op = OPEN_PAREN THEN on_open_paren(cfg)
       ELSE on_operator(cfg, operand.op)

\* process_char(expression_chars, input_char, state)
process_char(cfg, input_char) ==
    LET operand == Operand_parse(input_char)
    IN IF operand.kind = "None" THEN Panic(cfg, "InvalidCharacter", input_char)
       ELSE IF operand.kind = "Whitespace" THEN on_whitespace(cfg)
       ELSE IF operand.kind = "Digit" THEN on_digit(cfg, operand.digit)
       ELSE IF operand.op = OPEN_PAREN THEN on_open_paren(cfg)
       ELSE IF operand.op = CLOSE_PAREN THEN on_close_paren(cfg)
       ELSE on_operator(cfg, operand.op)

(***************************************************************************)
(* compute (main.rs:144-158)                                               *)
(***************************************************************************)
\* the digits a group's value is turned into, main.rs:113-117; -1 marks a
\* character to_digit has no value for
paren_digits(paren_res) ==
    LET text == to_string(paren_res)
    IN [i \in 1..Len(text) |-> to_digit(text[i])]

\* `state.result` is returned: to the caller of the top-level compute(), or
\* to the process_char that called compute() for a group, which installs
\* the value's digits as its digits_buf
compute_return(cfg) ==
    LET paren_res == Top(cfg).result
        depth == Len(cfg.stack)
        digits == paren_digits(paren_res)
    IN IF depth = 1
       THEN [stack |-> <<>>,
             outcome |-> [status |-> "returned", value |-> paren_res, ch |-> ""]]
       ELSE IF \E i \in 1..Len(digits) : digits[i] = -1
       THEN Panic(cfg, "NotADigit", "-")
       ELSE [cfg EXCEPT !.stack =
                [SubSeq(@, 1, depth - 1) EXCEPT ![depth - 1].digits_buf = digits]]

\* the iterator is exhausted: main.rs:155-157
compute_finish(cfg) ==
    LET applied == process_char(cfg, END_STATEMENT)
    IN IF Running(applied) THEN compute_return(applied) ELSE applied

\* faulty variant: whitespace is looked at but not taken from the iterator
compute_iterate_peek(cfg) ==
    LET state == Top(cfg)
        input_char == state.raw_expression[state.next + 1]
    IN IF is_whitespace(input_char) THEN process_char(cfg, input_char)
       ELSE process_char(SetTop(cfg, [state EXCEPT !.next = @ + 1]), input_char)

\* one iteration of the loop of main.rs:152-154 in the innermost compute()
compute_iterate(cfg) ==
    LET state == Top(cfg)
    IN process_char(SetTop(cfg, [state EXCEPT !.next = @ + 1]),
                    state.raw_expression[state.next + 1])

\* compute(raw_expression) is called
compute_call(raw_expression) ==
    [stack |-> <<new_frame(raw_expression)>>,
     outcome |-> [status |-> "running", value |-> 0, ch |-> ""]]

AtEnd(cfg) == Top(cfg).next >= Len(Top(cfg).raw_expression)

\* the evaluation run to its end: what compute(raw_expression) produces
RECURSIVE run(_)
run(cfg) ==
    IF ~Running(cfg) THEN cfg.outcome
    ELSE IF AtEnd(cfg) THEN run(compute_finish(cfg))
    ELSE run(compute_iterate(cfg))

compute(raw_expression) == run(compute_call(raw_expression))

(***************************************************************************)
(* Inputs                                                                  *)
(***************************************************************************)
MaxAny == 3      \* longest expression over the whole alphabet
MaxOps == 2      \* most operators of a parenthesis-free expression
MaxDepth == 1    \* deepest nesting of the generated groups
MaxLiteral == 10 \* most digits of a single long literal

\* every kind of character: digits, the six operator letters, whitespace,
\* the end marker and a character outside the encoding
AnyChars == {"0", "2", "3", ADDITION, SUBTRACTION, MULTIPLICATION, DIVISION,
             OPEN_PAREN, CLOSE_PAREN, " ", END_STATEMENT, "x"}

ArithmeticOps == {ADDITION, SUBTRACTION, MULTIPLICATION, DIVISION}

Strings(chars, n) == UNION {[1..k -> chars] : k \in 0..n}

AnyExprs == Strings(AnyChars, MaxAny)

Literals == {<<"0">>, <<"3">>, <<"1", "2">>}

\* n0 op1 n1 ... opk nk
RECURSIVE FlatOfOps(_)
FlatOfOps(k) ==
    IF k = 0 THEN Literals
    ELSE {x \o <<op>> \o n : x \in FlatOfOps(k - 1), op \in ArithmeticOps, n \in Literals}

FlatExprs == UNION {FlatOfOps(k) : k \in 0..MaxOps}

\* op1 n1 ... opk nk
LeadingOpExprs ==
    {<<op>> \o x : op \in ArithmeticOps, x \in UNION {FlatOfOps(k) : k \in 0..(MaxOps - 1)}}

GroupLiterals == {<<"3">>, <<"1", "2">>}

\* an operand, an operand pair with a literal on one side and an operator
\* or nothing in between; an operand is a literal or a group of depth <= d
RECURSIVE GroupedOfDepth(_)
GroupedOfDepth(d) ==
    LET operands ==
            GroupLiterals \cup
            (IF d = 0 THEN {}
             ELSE {<<OPEN_PAREN>> \o x \o <<CLOSE_PAREN>> : x \in GroupedOfDepth(d - 1)})
        mids == {<<op>> : op \in ArithmeticOps} \cup {<<>>}
    IN operands
       \cup {l \o m \o r : l \in GroupLiterals, m \in mids, r \in operands}
       \cup {l \o m \o r : l \in operands, m \in mids, r \in GroupLiterals}

GroupExprs == GroupedOfDepth(MaxDepth)

\* one whitespace character put anywhere into an expression
Spaced(x) == {SubSeq(x, 1, i) \o <<" ">> \o SubSeq(x, i + 1, Len(x)) : i \in 0..Len(x)}

SpacedExprs == UNION {Spaced(x) : x \in GroupedOfDepth(1)}

\* two groups with an operator or nothing in between
GroupPairExprs ==
    LET groups == {<<OPEN_PAREN>> \o x \o <<CLOSE_PAREN>> : x \in GroupedOfDepth(0)}
    IN {l \o m \o r : l \in groups, r \in groups,
                       m \in {<<op>> : op \in ArithmeticOps} \cup {<<>>}}

\* a group whose evaluation fails, alone and inside an expression
FailingGroupExprs ==
    LET inners == {<<"3", DIVISION, "0">>,
                   <<"x">>,
                   <<END_STATEMENT>>,
                   <<"3", OPEN_PAREN, "3", CLOSE_PAREN>>,
                   <<"3", SUBTRACTION, OPEN_PAREN, "3", SUBTRACTION, "1", "2", CLOSE_PAREN>>,
                   <<OPEN_PAREN, "3", DIVISION, "0", CLOSE_PAREN>>,
                   <<"3", ADDITION, OPEN_PAREN, OPEN_PAREN, DIVISION, CLOSE_PAREN, CLOSE_PAREN>>}
        before == {<<>>, <<"3", ADDITION>>, <<"1", "2", MULTIPLICATION>>}
        after == {<<>>, <<ADDITION, "3">>}
    IN {b \o <<OPEN_PAREN>> \o x \o <<CLOSE_PAREN>> \o a :
            b \in before, x \in inners, a \in after}

\* the expressions of the tests (main.rs:199-265) and of the documentation
TestExprs ==
    {<<"3", "a", "2", "c", "4">>,
     <<"3", "2", "a", "2", "d", "2">>,
     <<"5", "0", "0", "a", "1", "0", "b", "6", "6", "c", "3", "2">>,
     <<"3", "a", "e", "4", "c", "6", "6", "f", "b", "3", "2">>,
     <<"3", "c", "4", "d", "2", "a", "e", "e", "2", "a", "4", "c", "4", "1", "f", "c", "4", "f">>,
     <<"9">>,
     <<" ", "0", " ">>,
     <<"9", " ", "b", " ", "9">>,
     <<"1", "0", "0", " ", "d", " ", "1", "0">>,
     <<"9", " ", "b", " ", "9", " ", "c", " ", "1", "0">>,
     <<"b", " ", "1", "0", " ", "a", " ", "5", "0">>,
     <<"1", "0", " ", "a", " ", "e", " ", "5", " ", "c", " ", "3", " ", "b", " ", "1", " ", "f">>,
     <<"1", "0", " ", "a", " ", "e", "5", " ", "c", " ", "e", "3", " ", "b", " ", "1", " ", "f",
       "f", " ", "b", " ", "e", " ", "1", "0", " ", "b", " ", "5", "f", " ", "a", " ", "5">>,
     <<"b", " ", "7", " ", "d", " ", "2">>,
     <<"b", "7", "d", "2">>,
     <<"7", "d", "2">>,
     <<"5", " ", "a", " ", "b", " ", "3">>,
     <<"5", " ", "c">>,
     <<"5", " ", "d">>}

Expressions ==
    AnyExprs \cup FlatExprs \cup LeadingOpExprs \cup GroupExprs \cup SpacedExprs
    \cup GroupPairExprs \cup FailingGroupExprs \cup TestExprs

\* decimal literals of up to MaxLiteral digits
LiteralExprs == Strings({"0", "5"}, MaxLiteral)

(***************************************************************************)
(* The state machine                                                       *)
(***************************************************************************)
Cfg == [stack |-> stack, outcome |-> outcome]

\* compute(inputs) is called in a build with or without overflow checks
InitOn(inputs) ==
    /\ expression \in inputs
    /\ overflow_checks \in BOOLEAN
    /\ stack = compute_call(expression).stack
    /\ outcome = compute_call(expression).outcome

Init == InitOn(Expressions)

InitLiteral == InitOn(LiteralExprs \cup AnyExprs)

Becomes(cfg) ==
    /\ stack' = cfg.stack
    /\ outcome' = cfg.outcome
    /\ UNCHANGED <<expression, overflow_checks>>

\* the character the innermost loop takes next, "" when there is none
NextChar ==
    IF Running(Cfg) /\ ~AtEnd(Cfg)
    THEN Top(Cfg).raw_expression[Top(Cfg).next + 1]
    ELSE ""

NextOperand == Operand_parse(NextChar)

\* one loop iteration, by the arm of process_char's match it takes
ProcessInvalid ==
    /\ NextChar # "" /\ NextOperand.kind = "None"
    /\ Becomes(compute_iterate(Cfg))

ProcessWhitespace ==
    /\ NextChar # "" /\ NextOperand.kind = "Whitespace"
    /\ Becomes(compute_iterate(Cfg))

ProcessDigit ==
    /\ NextChar # "" /\ NextOperand.kind = "Digit"
    /\ Becomes(compute_iterate(Cfg))

ProcessOpenParen ==
    /\ NextChar = OPEN_PAREN
    /\ Becomes(compute_iterate(Cfg))

ProcessCloseParen ==
    /\ NextChar = CLOSE_PAREN
    /\ Becomes(compute_iterate(Cfg))

ProcessOperator ==
    /\ NextChar # "" /\ NextOperand.kind = "Operator"
    /\ NextChar \notin {OPEN_PAREN, CLOSE_PAREN}
    /\ Becomes(compute_iterate(Cfg))

\* the loop of the innermost compute() has ended: final apply and return
EndOfInput ==
    /\ Running(Cfg) /\ AtEnd(Cfg)
    /\ Becomes(compute_finish(Cfg))

Next ==
    \/ ProcessInvalid
    \/ ProcessWhitespace
    \/ ProcessDigit
    \/ ProcessOpenParen
    \/ ProcessCloseParen
    \/ ProcessOperator
    \/ EndOfInput

Spec == Init /\ [][Next]_vars

SpecLiteral == InitLiteral /\ [][Next]_vars

TypeOK ==
    /\ outcome.status \in {"running", "returned", "InvalidCharacter", "MalformedExpression",
                           "UnclosedParenthesis", "DivisionByZero", "UnknownOperator",
                           "Unreachable", "NotADigit", "ArithmeticOverflow", "BeyondModel"}
    /\ outcome.status = "running" => Len(stack) >= 1

(***************************************************************************)
(* Reference semantics the properties compare the evaluator with           *)
(***************************************************************************)
Terminated == outcome.status # "running"

Returned(v) == outcome.status = "returned" /\ outcome.value = v

Chars(x) == {x[i] : i \in 1..Len(x)}

DecimalDigits == {DigitChars[d] : d \in 1..Len(DigitChars)}

Blank(c) == c \in {" ", "\t", "\n"}

\* x without its whitespace characters
RECURSIVE StripWhitespace(_)
StripWhitespace(x) ==
    IF x = <<>> THEN <<>>
    ELSE IF Blank(x[1]) THEN StripWhitespace(Tail(x))
    ELSE <<x[1]>> \o StripWhitespace(Tail(x))

\* the number a digit string denotes (Horner)
RECURSIVE Decimal(_)
Decimal(x) ==
    IF x = <<>> THEN 0
    ELSE Decimal(SubSeq(x, 1, Len(x) - 1)) * 10
         + (CHOOSE d \in 0..9 : DigitChars[d + 1] = x[Len(x)])

IsLiteral(x) == x # <<>> /\ Chars(x) \subseteq DecimalDigits

\* occurrences of c in x[from..to]
Count(x, from, to, c) == Cardinality({i \in from..to : x[i] = c})

\* open minus closed parentheses in x[from..to]
Balance(x, from, to) == Count(x, from, to, OPEN_PAREN) - Count(x, from, to, CLOSE_PAREN)

\* the position of the close-parenthesis matching the open one at i, 0 if none
MatchOf(x, i) ==
    LET closes == {j \in (i + 1)..Len(x) : Balance(x, i, j) = 0}
    IN IF closes = {} THEN 0 ELSE CHOOSE j \in closes : \A k \in closes : j <= k

IsGroup(x) == Len(x) >= 2 /\ x[1] = OPEN_PAREN /\ MatchOf(x, 1) = Len(x)

Quotient(n, m) == IF n >= 0 THEN n \div m ELSE -((-n) \div m)

Undefined == [defined |-> FALSE, value |-> 0]

\* the value of operand (op operand)*, an operand being a literal or a
\* group ( ... ): operators associate to the left, without precedence
RECURSIVE Value(_)
Value(x) ==
    LET ops == {i \in 1..Len(x) : x[i] \in ArithmeticOps /\ Balance(x, 1, i) = 0}
    IN IF ops # {}
       THEN LET i == CHOOSE k \in ops : \A m \in ops : m <= k
                l == Value(SubSeq(x, 1, i - 1))
                r == Value(SubSeq(x, i + 1, Len(x)))
            IN IF ~l.defined \/ ~r.defined \/ (x[i] = DIVISION /\ r.value = 0)
               THEN Undefined
               ELSE [defined |-> TRUE,
                     value |-> CASE x[i] = ADDITION -> l.value + r.value
                                 [] x[i] = SUBTRACTION -> l.value - r.value
                                 [] x[i] = MULTIPLICATION -> l.value * r.value
                                 [] x[i] = DIVISION -> Quotient(l.value, r.value)]
       ELSE IF IsLiteral(x) THEN [defined |-> TRUE, value |-> Decimal(x)]
       ELSE IF IsGroup(x) THEN Value(SubSeq(x, 2, Len(x) - 1))
       ELSE Undefined

ParenFree(x) == Chars(x) \cap {OPEN_PAREN, CLOSE_PAREN} = {}

(***************************************************************************)
(* Properties                                                              *)
(***************************************************************************)
\* C1: a parenthesis-free expression n0 op1 n1 ... opk nk without a division
\* by zero evaluates to ((n0 op1 n1) op2 n2) ... opk nk: left to right, no
\* precedence.
C1_LeftToRightFold ==
    (Terminated /\ ParenFree(expression) /\ Value(expression).defined)
        => Returned(Value(expression).value)

\* 3 + 12 * 3 has been evaluated as (3 + 12) * 3
C1_Witness ==
    /\ expression = <<"3", ADDITION, "1", "2", MULTIPLICATION, "3">>
    /\ Returned(45)

\* C2: an expression with parenthesized groups evaluates to the fold in
\* which every group stands for its value, whatever that value is.
C2_GroupIsOperand ==
    (Terminated /\ ~ParenFree(expression) /\ Value(expression).defined)
        => Returned(Value(expression).value)

\* C3: a decimal literal evaluates to the number it denotes: the text of
\* the returned number is the literal without its leading zeros.
C3_LiteralRoundTrip ==
    (Terminated /\ outcome.status # "BeyondModel" /\ IsLiteral(expression))
        => /\ outcome.status = "returned"
           /\ outcome.value >= 0
           /\ \E zeros \in 0..(Len(expression) - 1) :
                 /\ \A i \in 1..zeros : expression[i] = "0"
                 /\ to_string(outcome.value)
                    = SubSeq(expression, zeros + 1, Len(expression))

\* C4: a whitespace step changes neither result, digit buffer nor pending
\* operator, and an expression ends as the expression without its whitespace
\* does: with the same number or the same failure.
C4_WhitespaceInsensitive ==
    [][/\ (NextChar # "" /\ Blank(NextChar))
            => /\ outcome'.status = "running"
               /\ stack' = [stack EXCEPT ![Len(stack)].next = @ + 1]
       /\ outcome'.status # "running"
            => outcome' = compute(StripWhitespace(expression))]_vars

\* an expression with whitespace inside a group and around it has returned
C4_Witness ==
    /\ outcome.status = "returned"
    /\ \E i, j \in 1..Len(expression) :
          /\ i < j
          /\ expression[i] = OPEN_PAREN
          /\ Blank(expression[j])
          /\ j < MatchOf(expression, i)
    /\ Len(StripWhitespace(expression)) >= 5

\* C5: a character that is neither a digit, one of a..f, nor whitespace is
\* rejected when the tokenizer meets it, with the failure naming it.
C5_OtherCharactersRejected ==
    [][(NextChar # ""
        /\ NextChar \notin DecimalDigits
        /\ NextChar \notin ArithmeticOps \cup {OPEN_PAREN, CLOSE_PAREN}
        /\ ~Blank(NextChar))
            => outcome' = [status |-> "InvalidCharacter", value |-> 0, ch |-> NextChar]]_vars

\* the pending operator is applied to the buffered operand in this step
Committing ==
    /\ outcome.status = "running"
    /\ \/ AtEnd(Cfg)
       \/ NextChar \in ArithmeticOps \cup {END_STATEMENT}

\* C6: committing a zero operand (a literal 0, a group of value 0 or no
\* operand at all) under a pending division fails with division by zero.
C6_DivisionByZeroFails ==
    [][(/\ Committing
        /\ Top(Cfg).last_operator = DIVISION
        /\ \A i \in 1..Len(Top(Cfg).digits_buf) : Top(Cfg).digits_buf[i] = 0)
            => outcome'.status = "DivisionByZero"]_vars

\* a division by a group whose value is 0 has failed
C6_Witness ==
    /\ outcome.status = "DivisionByZero"
    /\ \E i \in 1..Len(expression) :
          /\ expression[i] = OPEN_PAREN
          /\ i > 1 /\ expression[i - 1] = DIVISION
          /\ MatchOf(expression, i) = Len(expression)

\* C7: when the scan started at an open-parenthesis runs out of input before
\* the depth is back at 0, the evaluation fails with the unclosed-parenthesis
\* failure; and no expression with such an open-parenthesis returns a number.
C7_UnclosedParenthesisFails ==
    [][/\ (/\ NextChar = OPEN_PAREN
           /\ Top(Cfg).digits_buf = <<>>
           /\ MatchOf(Top(Cfg).raw_expression, Top(Cfg).next + 1) = 0)
            => outcome'.status = "UnclosedParenthesis"
       /\ outcome'.status = "returned"
            => \A i \in 1..Len(expression) :
                  expression[i] = OPEN_PAREN => MatchOf(expression, i) # 0]_vars

\* a scan that began after an operator has run out of input
C7_Witness ==
    /\ outcome.status = "UnclosedParenthesis"
    /\ Len(expression) >= 3
    /\ expression[1] \in DecimalDigits
    /\ expression[2] \in ArithmeticOps
    /\ expression[3] = OPEN_PAREN

\* C8: an open-parenthesis met while the digit buffer is not empty fails as
\* malformed, and no evaluation of the group is started.
C8_OpenAfterOperandFails ==
    [][(NextChar = OPEN_PAREN /\ Top(Cfg).digits_buf # <<>>)
            => /\ outcome'.status = "MalformedExpression"
               /\ Len(stack') = Len(stack)]_vars

\* a group directly after a group has failed as malformed
C8_Witness ==
    /\ outcome.status = "MalformedExpression"
    /\ expression # <<>>
    /\ expression[1] = OPEN_PAREN
    /\ MatchOf(expression, 1) < Len(expression)
    /\ expression[MatchOf(expression, 1) + 1] = OPEN_PAREN

\* op1 n1 ... opk nk
LeadingOperator(x) ==
    /\ Len(x) >= 2
    /\ x[1] \in ArithmeticOps
    /\ ParenFree(x)

\* C9: an expression that starts with an operator evaluates as the same
\* expression with a literal 0 put in front of it.
C9_LeadingOperator ==
    (Terminated /\ LeadingOperator(expression) /\ Value(<<"0">> \o expression).defined)
        => Returned(Value(<<"0">> \o expression).value)

\* - 12 + 3 has been evaluated as 0 - 12 + 3
C9_Witness ==
    /\ expression = <<SUBTRACTION, "1", "2", ADDITION, "3">>
    /\ Returned(-9)

\* C10: the empty expression and an expression of whitespace only return 0,
\* by one final apply on the initial state.
C10_EmptyIsZero ==
    (\A i \in 1..Len(expression) : Blank(expression[i]))
        => \/ Returned(0)
           \/ /\ outcome.status = "running"
              /\ Len(stack) = 1
              /\ Top(Cfg).result = 0
              /\ Top(Cfg).digits_buf = <<>>
              /\ Top(Cfg).last_operator = ADDITION

\* the empty expression has returned 0
C10_Witness ==
    /\ expression = <<>>
    /\ Returned(0)

\* C11: when the evaluation of a group fails, at any nesting depth, the
\* whole evaluation ends with that very failure and returns no number.
C11_GroupFailurePropagates ==
    (outcome.status = "running" /\ Len(stack) >= 2 /\ Top(Cfg).next = 0)
        => LET group == compute(Top(Cfg).raw_expression)
           IN group.status # "returned" => run(Cfg) = group

\* a division by zero two groups deep has ended the evaluation
C11_Witness ==
    /\ outcome.status = "DivisionByZero"
    /\ Len(stack) >= 3

\* the close-parenthesis at i ends a group
ClosesGroup(x, i) == \E j \in 1..(i - 1) : x[j] = OPEN_PAREN /\ MatchOf(x, j) = i

\* an operand ends at i and another one starts at i + 1, one of the two
\* being a group
AdjacentOperands(x) ==
    \E i \in 1..(Len(x) - 1) :
        \/ ClosesGroup(x, i) /\ x[i + 1] \in DecimalDigits \cup {OPEN_PAREN}
        \/ x[i] \in DecimalDigits /\ x[i + 1] = OPEN_PAREN

\* C12: an expression in which an operand is directly followed by another
\* operand (digits right after a group, a group right after digits or after
\* a group) does not return a number.
C12_AdjacentOperandsRejected ==
    (Terminated /\ AdjacentOperands(expression)) => outcome.status # "returned"

\* C13: the scan of a group and the loop take from one cursor.  A step that
\* handles an open-parenthesis at position i leaves the caller's cursor on
\* the matching close-parenthesis, so that its loop resumes right after it,
\* and starts the group on the characters in between; the return of a group
\* does not move the caller's cursor; every other step moves the cursor of
\* the running loop by one character.
C13_SharedCursor ==
    [][outcome'.status = "running" =>
        IF NextChar = OPEN_PAREN
        THEN LET raw == Top(Cfg).raw_expression
                 i == Top(Cfg).next + 1
                 m == MatchOf(raw, i)
             IN /\ m # 0
                /\ Len(stack') = Len(stack) + 1
                /\ stack'[Len(stack)].next = m
                /\ stack'[Len(stack')].raw_expression = SubSeq(raw, i + 1, m)
                /\ stack'[Len(stack')].next = 0
        ELSE IF AtEnd(Cfg)
        THEN /\ Len(stack') = Len(stack) - 1
             /\ stack'[Len(stack')].next = stack[Len(stack')].next
        ELSE /\ Len(stack') = Len(stack)
             /\ stack'[Len(stack')].next = Top(Cfg).next + 1]_vars

\* a group in the middle of an expression has returned and the outer loop
\* stands on its close-parenthesis, with characters left
C13_Witness ==
    /\ outcome.status = "running"
    /\ Len(stack) = 1
    /\ Top(Cfg).digits_buf # <<>>
    /\ Top(Cfg).next < Len(expression)
    /\ \E i \in 2..Len(expression) :
          expression[i] = OPEN_PAREN /\ MatchOf(expression, i) = Top(Cfg).next

\* the number of groups open after the first n characters of x, a
\* close-parenthesis outside every group closing nothing
RECURSIVE OpenGroups(_, _)
OpenGroups(x, n) ==
    IF n = 0 THEN 0
    ELSE LET before == OpenGroups(x, n - 1)
         IN IF x[n] = OPEN_PAREN THEN before + 1
            ELSE IF x[n] = CLOSE_PAREN /\ before > 0 THEN before - 1
            ELSE before

\* the deepest nesting of the groups of x
NestingDepth(x) ==
    LET depths == {OpenGroups(x, n) : n \in 0..Len(x)}
    IN CHOOSE d \in depths : \A e \in depths : e <= d

\* what is left to do: two for every character the loops of the active
\* compute() calls have not taken yet, one for the final apply of each call
StepsLeft ==
    IF outcome.status # "running" THEN 0
    ELSE LET RECURSIVE Sum(_)
             Sum(k) == IF k = 0 THEN 0
                       ELSE Sum(k - 1) + 1
                            + 2 * (Len(stack[k].raw_expression) - stack[k].next)
         IN Sum(Len(stack))

\* the configuration after the step the evaluation takes next
Advanced == IF AtEnd(Cfg) THEN compute_finish(Cfg) ELSE compute_iterate(Cfg)

\* C14: every evaluation ends, with a number or a failure. An evaluation
\* that has not ended always takes a step, every step uses up part of what
\* is left to do, which is bounded by the length of the input; a group's
\* compute() works on a string strictly shorter than its caller's, and the
\* depth of the recursion is at most the nesting depth of the parentheses.
C14_Terminates ==
    /\ [](Running(Cfg) => Advanced # Cfg)
    /\ [][StepsLeft' < StepsLeft]_vars
    /\ [](StepsLeft \in 0..(2 * Len(expression) + 1))
    /\ [](\A k \in 2..Len(stack) :
            Len(stack[k].raw_expression) < Len(stack[k - 1].raw_expression))
    /\ [](Len(stack) <= 1 + NestingDepth(expression))

\* an evaluation that went three calls deep has returned
C14_Witness ==
    /\ outcome.status = "returned"
    /\ NestingDepth(expression) >= 2

\* x without the close-parentheses that close no group of x
RECURSIVE WithoutStrayClose(_, _)
WithoutStrayClose(x, n) ==
    IF n = 0 THEN <<>>
    ELSE IF x[n] = CLOSE_PAREN /\ OpenGroups(x, n - 1) = 0
    THEN WithoutStrayClose(x, n - 1)
    ELSE Append(WithoutStrayClose(x, n - 1), x[n])

\* C15: a close-parenthesis met by the loop of a compute() call raises no
\* failure and changes neither result, digit buffer nor pending operator,
\* and an expression ends as it does without the close-parentheses that
\* close no group: with the same number or the same failure.
C15_CloseParenNoOp ==
    [][/\ NextChar = CLOSE_PAREN
            => /\ outcome' = outcome
               /\ stack' = [stack EXCEPT ![Len(stack)].next = @ + 1]
       /\ (outcome'.status # "running"
           /\ expression # WithoutStrayClose(expression, Len(expression)))
            => outcome' = compute(WithoutStrayClose(expression, Len(expression)))]_vars

\* "3f2" has returned 32
C15_Witness ==
    /\ expression = <<"3", CLOSE_PAREN, "2">>
    /\ Returned(32)

\* the number a sequence of digits denotes
RECURSIVE DigitsValue(_)
DigitsValue(ds) ==
    IF ds = <<>> THEN 0
    ELSE DigitsValue(SubSeq(ds, 1, Len(ds) - 1)) * 10 + ds[Len(ds)]

\* q is r / m rounded toward zero: the remainder is smaller than m and is 0
\* or has the sign of r
TruncatedQuotient(r, m, q) ==
    LET rem == r - q * m
    IN /\ Abs(rem) < m
       /\ rem = 0 \/ (rem < 0) = (r < 0)

\* C16: committing a non-zero operand m under a pending division turns the
\* running result r into r / m rounded toward zero, for negative r too: it
\* is the new running result, the value returned, or the value a group hands
\* to its caller. "b 7 d 2" is -3 and "32a2d2" is 17.
C16_DivisionTruncates ==
    [][/\ (/\ Committing
           /\ Top(Cfg).last_operator = DIVISION
           /\ Len(Top(Cfg).digits_buf) <= 9
           /\ \E i \in 1..Len(Top(Cfg).digits_buf) : Top(Cfg).digits_buf[i] # 0)
            => LET r == Top(Cfg).result
                   m == DigitsValue(Top(Cfg).digits_buf)
                   depth == Len(stack)
               IN IF ~AtEnd(Cfg)
                  THEN /\ outcome'.status = "running"
                       /\ TruncatedQuotient(r, m, stack'[depth].result)
                  ELSE IF depth = 1
                  THEN /\ outcome'.status = "returned"
                       /\ TruncatedQuotient(r, m, outcome'.value)
                  ELSE IF outcome'.status = "running"
                  THEN TruncatedQuotient(r, m, DigitsValue(stack'[depth - 1].digits_buf))
                  ELSE outcome'.status = "NotADigit" /\ r <= -m
       /\ (outcome'.status # "running"
           /\ expression = <<SUBTRACTION, " ", "7", " ", DIVISION, " ", "2">>)
            => outcome' = [status |-> "returned", value |-> -3, ch |-> ""]
       /\ (outcome'.status # "running"
           /\ expression = <<"3", "2", ADDITION, "2", DIVISION, "2">>)
            => outcome' = [status |-> "returned", value |-> 17, ch |-> ""]]_vars

\* "b7d2" has returned -3
C16_Witness ==
    /\ expression = <<SUBTRACTION, "7", DIVISION, "2">>
    /\ Returned(-3)

\* the characters the grammar of expressions is made of
GrammarChars ==
    DecimalDigits \cup ArithmeticOps \cup {OPEN_PAREN, CLOSE_PAREN} \cup {" ", "\t", "\n"}

\* C17: no compute() call ever holds a parenthesis as its pending operator
\* and the unreachable!() arm is never taken; on an input made of digits,
\* the six letters and whitespace every running compute() call holds one of
\* the four arithmetic operators and the "Unknown operator" failure is never
\* raised.
C17_PendingOperatorArithmetic ==
    /\ \A k \in 1..Len(stack) : stack[k].last_operator \notin {OPEN_PAREN, CLOSE_PAREN}
    /\ outcome.status # "Unreachable"
    /\ Chars(expression) \subseteq GrammarChars
        => /\ outcome.status # "UnknownOperator"
           /\ outcome.status = "running"
                => \A k \in 1..Len(stack) : stack[k].last_operator \in ArithmeticOps

\* the caller of a group has just got the group's value back, with a
\* multiplication pending
C17_Witness ==
    /\ outcome.status = "running"
    /\ Len(stack) = 1
    /\ Top(Cfg).next > 1
    /\ \E i \in 2..Len(expression) :
          expression[i] = OPEN_PAREN /\ MatchOf(expression, i) = Top(Cfg).next
    /\ Top(Cfg).digits_buf # <<>>
    /\ Top(Cfg).last_operator = MULTIPLICATION

\* the step commits q: as the new running result, as the number returned,
\* or as the value a group hands to its caller (which takes no negative one)
CommitsValue(q) ==
    LET depth == Len(stack)
    IN IF ~AtEnd(Cfg)
       THEN /\ outcome'.status = "running"
            /\ stack'[depth].result = q
       ELSE IF depth = 1
       THEN outcome' = [status |-> "returned", value |-> q, ch |-> ""]
       ELSE IF q >= 0
       THEN /\ outcome'.status = "running"
            /\ DigitsValue(stack'[depth - 1].digits_buf) = q
       ELSE outcome'.status = "NotADigit"

\* C18: an operator or the end of input met with an empty digit buffer is
\* not rejected; the pending operator is applied with operand 0: the running
\* result stays as it is under a and b, becomes 0 under c, and the
\* evaluation fails with division by zero under d. "5 a b 3" is 2 and "5 c"
\* is 0.
C18_MissingOperandIsZero ==
    [][/\ (Committing /\ Top(Cfg).digits_buf = <<>>)
            => LET r == Top(Cfg).result
                   pending == Top(Cfg).last_operator
               IN /\ pending \in {ADDITION, SUBTRACTION} => CommitsValue(r)
                  /\ pending = MULTIPLICATION => CommitsValue(0)
                  /\ pending = DIVISION => outcome'.status = "DivisionByZero"
       /\ (outcome'.status # "running"
           /\ expression = <<"5", " ", ADDITION, " ", SUBTRACTION, " ", "3">>)
            => outcome' = [status |-> "returned", value |-> 2, ch |-> ""]
       /\ (outcome'.status # "running"
           /\ expression = <<"5", " ", MULTIPLICATION>>)
            => outcome' = [status |-> "returned", value |-> 0, ch |-> ""]]_vars

\* "5 a b 3" has returned 2
C18_Witness ==
    /\ expression = <<"5", " ", ADDITION, " ", SUBTRACTION, " ", "3">>
    /\ Returned(2)

====
